---- MODULE Spec2Model ----
(***************************************************************************)
(* A model of true_storage.session.SessionStore: an OrderedDict of         *)
(* sessions, a dict of timestamps, one threading.Lock, a stop Event and a  *)
(* daemon cleanup thread, used by foreground caller threads; and of        *)
(* true_storage.storage: HotStorage (an OrderedDict with timestamps),      *)
(* ColdStorage (one file per key) and MixedStorage, which writes through   *)
(* to both and reads through the first to the second.                      *)
(***************************************************************************)
EXTENDS Naturals, Sequences, FiniteSets

\* ------------------------------------------------------------------ bounds
\* config.max_size of the store the model constructs.
MaxSize == 2
\* config.expiration_time, in clock ticks.
ExpirationTime == 0
\* Last value of the clock time.time() reads.
MaxTime == 1
\* HotStorage(expiration_time=...) of the HotStorage used on its own, in ticks.
HotExpirationTime == 1

\* Python's None, stored as a value
None == "None"

Keys == {"a", "b", "c"}
Values == {"v1", "v2"}
\* the lease times asked of lock(k, d)
Durations == {1}
NoKey == "-"
NoVal == "-"
\* two SessionStores of store.py
LegStores == {"a", "b"}
\* a key that cannot be hashed, such as a list
Unhashable == "[]"

\* The foreground threads: one that changes the store and one that reads it.
Writer == "writer"
Reader == "reader"
Threads == {Writer, Reader}
Cleaner == "cleanup"
Procs == Threads \cup {Cleaner}
Free == "free"

VARIABLES
    store,          \* _store: OrderedDict, a sequence of [k, v] in dict order
    timestamps,     \* _timestamps: dict key -> time of the last set
    lock,           \* _lock: Free, or the process that holds it
    stop_cleanup,   \* _stop_cleanup: the Event's flag
    now,            \* the clock read by time.time()
    pc,             \* where each process is
    fn,             \* the method each process is executing
    outer,          \* who called that method: the api caller, or an enclosing method
    key,            \* the method's key argument
    val,            \* set's value argument
    result,         \* what the call handed back to its caller
    expired_keys,   \* the sweep's local list of keys still to delete
    lru,            \* history: resident keys, least recently touched by get/set first
    lastSet,        \* history: the value of the latest set of each resident key
    saved,          \* history: the unexpired sessions of the store before this one
    hot_data,       \* HotStorage.data: OrderedDict, a sequence of [k, v]
    hot_timestamps, \* HotStorage._timestamps: dict key -> time
    cold_files,     \* ColdStorage.metadata and the files: dict key -> stored value
    hot_lru,        \* history: hot keys, least recently stored or retrieved first
    sql_path,       \* SQLiteStorage.db_path of the instance in use
    sql_file,       \* the database file: has it the table, and the table's rows
    sql_stored,     \* history: what was stored through this instance, key -> value
    fs_files,       \* the files under FileSystemStorage.base_dir: path -> content
    fs_call,        \* store's key and value, and history: the file's content
                    \* before, and all the files before
    env_environ,    \* os.environ: name -> [v: the value, m: history, the modes of its set]
    env_mappings,   \* Environment._secure_mode_mappings: key -> set of modes
    env_mode,       \* Environment._mode
    env_snapshot,   \* the EnvSnapshot taken last, with the mappings of that moment
    hot_expiration, \* HotStorage.expiration_time
    leg_hot,        \* store.py, HotStorage.data: a sequence of [k, v, t], oldest first
    leg_cold,       \* store.py, ColdStorage.metadata and files: dict key -> value
    leg_lru,        \* history: the keys of leg_hot, least recently stored or
                    \* retrieved first
    leg_store,      \* store.py, SessionStore._store of each store: a sequence of
                    \* [k, v, e], e the time expire_at
    leg_lock,       \* store.py, SessionStore._lock of each store: Free, or the
                    \* process that holds it
    leg_args,       \* self and other of the comparison each thread evaluates
    keys_to_delete, \* the local keys_to_delete of _cleanup_expired_sessions
    it              \* the iterator keys(), values() or items() returned last,
                    \* at the item of index cur (0: at its end); mutated: the
                    \* OrderedDict's nodes changed since it was made; history:
                    \* snap, the _store when it was made, and out, what it
                    \* yielded; kind "none": no iterator was asked for yet

\* the state of a MixedStorage and its history
tiers == <<hot_data, hot_timestamps, cold_files, hot_lru>>

\* the state of a SQLiteStorage and its history
sqlite == <<sql_path, sql_file, sql_stored>>

\* the components beside the session store and the tiers
\* the state of a FileSystemStorage and its history
filesystem == <<fs_files, fs_call>>

\* the state of the Environment and its history
environment == <<env_environ, env_mappings, env_mode, env_snapshot>>

\* the state of the SessionStores of store.py
leg_session == <<leg_store, leg_lock, leg_args, keys_to_delete>>

\* the state of the MixedStorage and of the SessionStores of store.py
legacy == <<leg_hot, leg_cold, leg_lru, leg_session>>

others == <<sqlite, filesystem, environment, hot_expiration, legacy, it>>

vars == <<store, timestamps, lock, stop_cleanup, now, pc, fn, outer,
          key, val, result, expired_keys, lru, lastSet, saved, tiers, others>>

\* ------------------------------------------------------- results of a call
Ret(tag, v, n) == [tag |-> tag, v |-> v, n |-> n]
\* the call has not returned
NoRes == Ret("pending", NoVal, 0)
\* a method that returns None
Nothing == Ret("None", NoVal, 0)
\* get's default argument
Default == Ret("default", NoVal, 0)
Returned(v) == Ret("value", v, 0)
Bool(b) == Ret("bool", IF b THEN "True" ELSE "False", 0)
Count(n) == Ret("int", NoVal, n)
Raised(exc) == Ret("raise", exc, 0)

\* ------------------------------------------------- OrderedDict operations
KeysOf(s) == {s[i].k : i \in DOMAIN s}

Lookup(s, k) == (CHOOSE i \in DOMAIN s : s[i].k = k)

\* a get that reads the first item instead of the item of its key
ValueOfFirst(s, k) == s[1].v

\* d[k]
ValueOf(s, k) == s[Lookup(s, k)].v

\* a delete that drops the oldest item instead of the item of its key
RemoveFirst(s, k) == Tail(s)

\* del d[k]
Remove(s, k) == SelectSeq(s, LAMBDA e : e.k # k)

\* d[k] = v: a resident key keeps its place, a new key goes last
Put(s, k, v) ==
    IF k \in KeysOf(s)
    THEN [s EXCEPT ![Lookup(s, k)] = [k |-> k, v |-> v]]
    ELSE Append(s, [k |-> k, v |-> v])

\* d.popitem(last=False)
PopFirst(s) == Tail(s)

\* del d[k] of a plain dict
Drop(d, k) == [x \in (DOMAIN d) \ {k} |-> d[x]]

\* d[k] = t of a plain dict
Assign(d, k, t) == [x \in (DOMAIN d) \cup {k} |-> IF x = k THEN t ELSE d[x]]

EmptyDict == [x \in {} |-> 0]

\* sequence without k
Without(s, k) == SelectSeq(s, LAMBDA x : x # k)

\* history h of the keys that are still in table s
Of(h, s) == [k \in Keys |-> IF k \in KeysOf(s) THEN h[k] ELSE NoVal]

\* ------------------------------------------------------- SessionStore code
\* a capacity test that is off by one
AtCapacityLate(s, m) == Len(s) > m

\* len(self._store) >= self.config.max_size
AtCapacity(s, m) == Len(s) >= m

\* current_time - timestamp > self.config.expiration_time
IsExpired(t, ts) == t > ts + ExpirationTime

\* SQLiteStorage: db_path or ":memory:", line 16, and the path of a file
MemoryPath == ":memory:"

\* a database in which nothing was created yet
NoTable == [table |-> FALSE, rows |-> EmptyDict]

\* FileSystemStorage: how many '.tmp' suffixes the keys in use end with
TmpDepth == 1

\* file names, and the keys: a name followed by some '.tmp' suffixes
FsKeys == [name : {"a", "b"}, tmp : 0..TmpDepth]

\* what there is to read where there is no file
NoFile == <<>>

\* Environment: MODES, lines 110-114, without TEST and STAGE
ALL == "ALL"
DEV == "DEV"
PROD == "PROD"
Modes == {ALL, DEV, PROD}

\* A variable name is a sequence: <<"PROD", "X">> is the string 'PROD_X'.
\* The keys callers pass, the `modes` they pass and the values.
EnvKeys == {<<"X">>, <<PROD, "X">>}
EnvValues == {"v1", "v2"}

\* __len__'s sum over _timestamps.values()
ActiveCount(d, t) == Cardinality({k \in DOMAIN d : ~IsExpired(t, d[k])})

\* the state after construction, with a HotStorage(expiration_time=e)
Started(e) ==
    /\ store = <<>>
    /\ timestamps = EmptyDict
    /\ lock = Free
    /\ stop_cleanup = FALSE
    /\ now = 0
    /\ pc = [p \in Procs |-> IF p = Cleaner THEN "wait" ELSE "idle"]
    /\ fn = [p \in Procs |-> "none"]
    /\ outer = [p \in Procs |-> "none"]
    /\ key = [p \in Procs |-> NoKey]
    /\ val = [p \in Procs |-> NoVal]
    /\ result = [p \in Procs |-> NoRes]
    /\ expired_keys = {}
    /\ lru = <<>>
    /\ lastSet = [k \in Keys |-> NoVal]
    /\ saved = EmptyDict
    /\ hot_data = <<>>
    /\ hot_timestamps = EmptyDict
    /\ cold_files = EmptyDict
    /\ hot_lru = <<>>
    /\ sql_path = MemoryPath
    /\ sql_file = NoTable
    /\ sql_stored = EmptyDict
    /\ fs_files = EmptyDict
    /\ fs_call = [k |-> NoKey, v |-> NoVal, before |-> NoFile,
                  files |-> EmptyDict]
    /\ env_environ = EmptyDict
    /\ env_mappings = EmptyDict
    /\ env_mode = DEV
    /\ env_snapshot = [taken |-> FALSE, variables |-> EmptyDict,
                       mappings |-> EmptyDict]
    /\ hot_expiration = e
    /\ leg_hot = <<>>
    /\ leg_cold = EmptyDict
    /\ leg_lru = <<>>
    /\ leg_store = [s \in LegStores |-> <<>>]
    /\ leg_lock = [s \in LegStores |-> Free]
    /\ leg_args = [t \in Threads |-> <<>>]
    /\ keys_to_delete = {}
    /\ it = [kind |-> "none", cur |-> 0, mutated |-> FALSE, failed |-> FALSE,
             snap |-> <<>>, out |-> <<>>]

Init == Started(ExpirationTime)

\* ---------------------------------------------------------------- calls
\* A foreground thread calls a method and reaches its `with self._lock`.
Invoke(t, f, o, k, v) ==
    /\ pc[t] = "idle"
    /\ pc' = [pc EXCEPT ![t] = "acquire"]
    /\ fn' = [fn EXCEPT ![t] = f]
    /\ outer' = [outer EXCEPT ![t] = o]
    /\ key' = [key EXCEPT ![t] = k]
    /\ val' = [val EXCEPT ![t] = v]
    /\ UNCHANGED <<store, timestamps, lock, stop_cleanup, now, result,
                   expired_keys, lru, lastSet>>
    /\ UNCHANGED <<tiers, saved, others>>

CallSet(t) == \E k \in Keys, v \in Values : Invoke(t, "set", "api", k, v)

CallGet(t) == \E k \in Keys : Invoke(t, "get", "api", k, NoVal)

CallDelete(t) == \E k \in Keys : Invoke(t, "delete", "api", k, NoVal)

\* __delitem__: `if not self.delete(key): raise KeyError(key)`
CallDelItem(t) == \E k \in Keys : Invoke(t, "delete", "__delitem__", k, NoVal)

\* a call of a method the class does not define: the attribute lookup raises
\* AttributeError and nothing else happens
NoSuchMethod(t, f) ==
    /\ pc[t] = "idle"
    /\ pc' = [pc EXCEPT ![t] = "ret"]
    /\ fn' = [fn EXCEPT ![t] = f]
    /\ result' = [result EXCEPT ![t] = Raised("AttributeError")]
    /\ UNCHANGED <<store, timestamps, lock, stop_cleanup, now, outer, key, val,
                   expired_keys, lru, lastSet, saved, tiers, others>>

\* store.lock(k, d): SessionStore has no lock
Lock(t, k, d) == NoSuchMethod(t, "lock")

\* After its stop() the caller constructs a second SessionStore and goes on
\* with that one: an empty table, a new lock, a new cleanup thread. Nothing
\* was written anywhere and the constructor reads nothing.
Reopen(t) ==
    /\ pc[t] = "ret" /\ fn[t] = "stop"
    /\ \A u \in Threads \ {t} : pc[u] = "idle"
    /\ saved' = [k \in {x \in KeysOf(store) : ~IsExpired(now, timestamps[x])}
                     |-> [v |-> ValueOf(store, k), t |-> timestamps[k]]]
    /\ store' = <<>>
    /\ timestamps' = EmptyDict
    /\ lock' = Free
    /\ stop_cleanup' = FALSE
    /\ pc' = [pc EXCEPT ![t] = "reopened", ![Cleaner] = "wait"]
    /\ fn' = [fn EXCEPT ![t] = "none", ![Cleaner] = "none"]
    /\ outer' = [outer EXCEPT ![Cleaner] = "none"]
    /\ key' = [key EXCEPT ![Cleaner] = NoKey]
    /\ result' = [result EXCEPT ![t] = NoRes]
    /\ expired_keys' = {}
    /\ lru' = <<>>
    /\ lastSet' = [k \in Keys |-> NoVal]
    /\ UNCHANGED <<now, val, tiers, others>>

\* stop_cleanup: `self._stop_cleanup.set()`, then the thread is at join()
CallStopCleanup(t) ==
    /\ pc[t] = "idle"
    /\ stop_cleanup' = TRUE
    /\ pc' = [pc EXCEPT ![t] = "join"]
    /\ fn' = [fn EXCEPT ![t] = "stop_cleanup"]
    /\ UNCHANGED <<store, timestamps, lock, now, outer, key, val, result,
                   expired_keys, lru, lastSet>>
    /\ UNCHANGED <<tiers, saved, others>>

\* `self._cleanup_thread.join()` returns once the cleanup thread has ended
Join(t) ==
    /\ pc[t] = "join"
    /\ pc[Cleaner] = "exited"
    /\ pc' = [pc EXCEPT ![t] = "ret"]
    /\ result' = [result EXCEPT ![t] = Nothing]
    /\ UNCHANGED <<store, timestamps, lock, stop_cleanup, now, fn,
                   outer, key, val, expired_keys, lru, lastSet>>
    /\ UNCHANGED <<tiers, saved, others>>

\* the caller takes the result; the thread is free for its next call
Return(t) ==
    /\ pc[t] = "ret"
    /\ pc' = [pc EXCEPT ![t] = "idle"]
    /\ fn' = [fn EXCEPT ![t] = "none"]
    /\ result' = [result EXCEPT ![t] = NoRes]
    /\ UNCHANGED <<store, timestamps, lock, stop_cleanup, now, outer, key,
                   val, expired_keys, lru, lastSet>>
    /\ UNCHANGED <<tiers, saved, others>>

\* `with self._lock:` of the method the process is in, and the block under
\* it, which runs to its end (or to a call that blocks) with the lock held.
\* threading.Lock blocks while the lock is held by any thread, the caller
\* included.
Locked(p, f) ==
    /\ pc[p] = "acquire"
    /\ fn[p] = f
    /\ lock = Free

\* the body ends, `with` releases the lock and method f returns r to the
\* api caller; its arguments are gone with its frame
Finish(p, f, r) ==
    /\ lock' = Free
    /\ pc' = [pc EXCEPT ![p] = "ret"]
    /\ fn' = [fn EXCEPT ![p] = f]
    /\ outer' = [outer EXCEPT ![p] = "none"]
    /\ key' = [key EXCEPT ![p] = NoKey]
    /\ val' = [val EXCEPT ![p] = NoVal]
    /\ result' = [result EXCEPT ![p] = r]

\* the body of method o calls self.delete(k) with the lock held: the process
\* is at delete's `with self._lock`
CallInner(p, o, k) ==
    /\ lock' = p
    /\ pc' = [pc EXCEPT ![p] = "acquire"]
    /\ fn' = [fn EXCEPT ![p] = "delete"]
    /\ outer' = [outer EXCEPT ![p] = o]
    /\ key' = [key EXCEPT ![p] = k]
    /\ UNCHANGED <<val, result>>

\* --------------------------------------------------------------- bodies
\* set, lines 38-47, under the lock
SetBody(p) ==
    /\ Locked(p, "set")
    /\ LET full == AtCapacity(store, MaxSize)
           kept == IF full THEN PopFirst(store) ELSE store
       IN IF full /\ store = <<>>
          THEN \* popitem() of an empty dict: KeyError, wrapped in StorageError
               /\ Finish(p, "set", Raised("StorageError"))
               /\ UNCHANGED <<store, timestamps, lru, lastSet>>
          ELSE /\ store' = Put(kept, key[p], val[p])
               /\ timestamps' = Assign(timestamps, key[p], now)
               /\ lru' = Append(SelectSeq(lru, LAMBDA x :
                                    x \in KeysOf(kept) /\ x # key[p]), key[p])
               /\ lastSet' = Of([lastSet EXCEPT ![key[p]] = val[p]], store')
               /\ Finish(p, "set", Nothing)
    /\ UNCHANGED <<stop_cleanup, now, expired_keys>>
    /\ UNCHANGED <<tiers, saved, others>>

\* `value is None` of what get handed back: the default of a get that was
\* given none, or a stored None
IsNone(r) == r = Default \/ r = Returned(None)

\* what get's caller hands on of get's result r: __getitem__ (131-134) raises
\* KeyError for None, __contains__ (143) answers `is not None`
GetResult(o, r) ==
    IF r.tag = "raise" THEN r
    ELSE IF o = "__getitem__" THEN (IF IsNone(r) THEN Raised("KeyError") ELSE r)
    ELSE IF o = "__contains__" THEN Bool(~IsNone(r))
    ELSE r

\* the method the api caller called: f itself, or the method o that called f
Called(o, f) == IF o = "api" THEN f ELSE o

\* get, lines 52-64, under the lock; then what __getitem__ or __contains__
\* does with the result
GetBody(p) ==
    /\ Locked(p, "get")
    /\ IF key[p] \notin KeysOf(store)
       THEN /\ Finish(p, Called(outer[p], "get"), GetResult(outer[p], Default))
            /\ UNCHANGED lru
       ELSE IF key[p] \notin DOMAIN timestamps
       THEN \* self._timestamps[key]: KeyError, wrapped in StorageError
            /\ Finish(p, Called(outer[p], "get"), Raised("StorageError"))
            /\ UNCHANGED lru
       ELSE IF IsExpired(now, timestamps[key[p]])
       THEN \* self.delete(key), with the lock still held
            /\ CallInner(p, "get", key[p])
            /\ UNCHANGED lru
       ELSE /\ Finish(p, Called(outer[p], "get"),
                       GetResult(outer[p], Returned(ValueOf(store, key[p]))))
            /\ lru' = Append(Without(lru, key[p]), key[p])
    /\ UNCHANGED <<store, timestamps, stop_cleanup, now, expired_keys, lastSet>>
    /\ UNCHANGED <<tiers, saved, others>>

\* delete, lines 69-76, under the lock; then what its caller does with the
\* result: the api caller, __delitem__ (138-139), get (59) or the sweep (111)
DeleteBody(p) ==
    /\ Locked(p, "delete")
    /\ LET found == key[p] \in KeysOf(store)
           stamped == key[p] \in DOMAIN timestamps
           rest == expired_keys \ {key[p]}
       IN /\ store' = IF found THEN Remove(store, key[p]) ELSE store
          /\ timestamps' = IF found /\ stamped THEN Drop(timestamps, key[p])
                           ELSE timestamps
          /\ lru' = IF found THEN Without(lru, key[p]) ELSE lru
          /\ lastSet' = Of(lastSet, store')
          /\ IF found /\ ~stamped
             THEN \* del self._timestamps[key]: KeyError, wrapped in StorageError
                  /\ Finish(p, "delete", Raised("StorageError"))
                  /\ UNCHANGED expired_keys
             ELSE IF outer[p] = "api"
             THEN /\ Finish(p, "delete", Bool(found))
                  /\ UNCHANGED expired_keys
             ELSE IF outer[p] = "__delitem__"
             THEN /\ Finish(p, "__delitem__",
                            IF found THEN Nothing ELSE Raised("KeyError"))
                  /\ UNCHANGED expired_keys
             ELSE IF outer[p] = "get"
             THEN \* get returns default through its own `with`, whose exit
                  \* releases a lock that delete's exit already released
                  /\ Finish(p, "get", Raised("RuntimeError"))
                  /\ UNCHANGED expired_keys
             ELSE \* the sweep's loop: the next expired key, or the end of
                  \* the sweep's `with`, whose exit ends the thread the same way
                  /\ expired_keys' = rest
                  /\ lock' = Free
                  /\ UNCHANGED <<val, result>>
                  /\ IF rest = {}
                     THEN /\ pc' = [pc EXCEPT ![p] = "exited"]
                          /\ fn' = [fn EXCEPT ![p] = "none"]
                          /\ outer' = [outer EXCEPT ![p] = "none"]
                          /\ key' = [key EXCEPT ![p] = NoKey]
                     ELSE /\ \E k \in rest : key' = [key EXCEPT ![p] = k]
                          /\ UNCHANGED <<pc, fn, outer>>
    /\ UNCHANGED <<stop_cleanup, now>>
    /\ UNCHANGED <<tiers, saved, others>>

\* clear, lines 81-85, under the lock
ClearBody(p) ==
    /\ Locked(p, "clear")
    /\ store' = <<>>
    /\ timestamps' = EmptyDict
    /\ lru' = <<>>
    /\ lastSet' = Of(lastSet, store')
    /\ Finish(p, "clear", Nothing)
    /\ UNCHANGED <<stop_cleanup, now, expired_keys>>
    /\ UNCHANGED <<tiers, saved, others>>

\* __len__, lines 148-152, under the lock
LenBody(p) ==
    /\ Locked(p, "__len__")
    /\ Finish(p, "__len__", Count(ActiveCount(timestamps, now)))
    /\ UNCHANGED <<store, timestamps, stop_cleanup, now, expired_keys, lru,
                   lastSet>>
    /\ UNCHANGED <<tiers, saved, others>>

\* ------------------------------------------------------ the cleanup thread
\* line 104, reached at the thread's start and whenever the wait of line 113
\* ends (the interval has passed, or the Event was set)
CleanupLoop ==
    /\ pc[Cleaner] = "wait"
    /\ IF stop_cleanup
       THEN /\ pc' = [pc EXCEPT ![Cleaner] = "exited"]
            /\ UNCHANGED fn
       ELSE /\ pc' = [pc EXCEPT ![Cleaner] = "acquire"]
            /\ fn' = [fn EXCEPT ![Cleaner] = "cleanup"]
    /\ UNCHANGED <<store, timestamps, lock, stop_cleanup, now, outer,
                   key, val, result, expired_keys, lru, lastSet>>
    /\ UNCHANGED <<tiers, saved, others>>

\* one sweep, lines 106-112, under the lock: the expired keys, then
\* self.delete(key) of the first of them with the lock still held
SweepBody ==
    /\ Locked(Cleaner, "cleanup")
    /\ LET found == {k \in DOMAIN timestamps : IsExpired(now, timestamps[k])}
       IN IF found = {}
          THEN /\ lock' = Free
               /\ pc' = [pc EXCEPT ![Cleaner] = "wait"]
               /\ fn' = [fn EXCEPT ![Cleaner] = "none"]
               /\ UNCHANGED <<outer, key, val, result, expired_keys>>
          ELSE /\ expired_keys' = found
               /\ \E k \in found : CallInner(Cleaner, "cleanup", k)
    /\ UNCHANGED <<store, timestamps, stop_cleanup, now, lru, lastSet>>
    /\ UNCHANGED <<tiers, saved, others>>

\* time passes
Tick ==
    /\ now < MaxTime
    /\ now' = now + 1
    /\ UNCHANGED <<store, timestamps, lock, stop_cleanup, pc, fn,
                   outer, key, val, result, expired_keys, lru, lastSet>>
    /\ UNCHANGED <<tiers, saved, others>>

\* the next step of process p inside the method it is executing
Step(p) ==
    \/ SetBody(p)
    \/ GetBody(p)
    \/ DeleteBody(p)
    \/ ClearBody(p)
    \/ LenBody(p)
    \/ (p = Cleaner /\ SweepBody)

Next ==
    \/ CallSet(Writer)
    \/ CallDelete(Writer)
    \/ CallDelItem(Writer)
    \/ Invoke(Writer, "clear", "api", NoKey, NoVal)
    \/ CallStopCleanup(Writer)
    \/ Join(Writer)
    \/ CallGet(Reader)
    \/ Invoke(Reader, "__len__", "api", NoKey, NoVal)
    \/ \E t \in Threads : Return(t)
    \/ \E p \in Procs : Step(p)
    \/ CleanupLoop
    \/ Tick

Spec == Init /\ [][Next]_vars

\* the store used as test_session.py uses it: as a dict, with lock() and with
\* a stop() followed by a second store
ItemStep(p) ==
    \/ SetBody(p)
    \/ GetBody(p)
    \/ DeleteBody(p)
    \/ (p = Cleaner /\ SweepBody)

ItemNext ==
    \* store[k] = v, with a value and with None
    \/ \E k \in Keys, v \in {"v1", None} :
           Invoke(Writer, "set", "__setitem__", k, v)
    \/ CallDelItem(Writer)
    \/ \E k \in Keys, d \in Durations : Lock(Writer, k, d)
    \* store.stop(): SessionStore has no stop
    \/ NoSuchMethod(Writer, "stop")
    \/ Reopen(Writer)
    \* store[k], and k in store
    \/ \E k \in Keys : Invoke(Reader, "get", "__getitem__", k, NoVal)
    \/ \E k \in Keys : Invoke(Reader, "get", "__contains__", k, NoVal)
    \/ CallGet(Reader)
    \/ \E t \in Threads : Return(t)
    \/ \E p \in Procs : ItemStep(p)
    \/ CleanupLoop
    \/ Tick

ItemSpec == Init /\ [][ItemNext]_vars

\* ------------------------------------------------------------- HotStorage
\* what callers store: session data, or None
SessionData == {"v1", None}

\* the HotStorage as one value: data, _timestamps and the history
Hot == [d |-> hot_data, ts |-> hot_timestamps, lru |-> hot_lru]

SetHot(h) ==
    /\ hot_data' = h.d
    /\ hot_timestamps' = h.ts
    /\ hot_lru' = h.lru

\* _remove_expired_items, lines 24-30, runs with self.lock held: when a
\* timestamp has expired its self.delete(key) waits for that same lock
HotBlocks(ts, t) == {k \in DOMAIN ts : t - ts[k] > hot_expiration} # {}

\* popitem() of an empty OrderedDict: KeyError, wrapped in StorageError
HotStoreFails(d, k) == k \notin KeysOf(d) /\ AtCapacity(d, MaxSize) /\ d = <<>>

\* a retrieve that leaves the item where it is
NotPromoted(d, k) == d

\* retrieve, lines 51-52: pop and re-add
Promoted(d, k) == Append(Remove(d, k), [k |-> k, v |-> ValueOf(d, k)])

\* store, lines 36-41, once _remove_expired_items has returned: d is data
\* after the key was re-added or the oldest evicted
HotStore(h, k, v, t) ==
    LET kept == IF k \in KeysOf(h.d) THEN Remove(h.d, k)
                ELSE IF AtCapacity(h.d, MaxSize) THEN PopFirst(h.d)
                ELSE h.d
        d == Append(kept, [k |-> k, v |-> v])
    IN [d |-> d,
        ts |-> Assign(h.ts, k, t),
        lru |-> Append(SelectSeq(h.lru, LAMBDA x : x \in KeysOf(d) /\ x # k), k)]

\* retrieve, lines 49-54, once _remove_expired_items has returned
HotRetrieve(h, k, t) ==
    IF k \notin KeysOf(h.d) THEN h
    ELSE [d |-> Promoted(h.d, k),
          ts |-> Assign(h.ts, k, t),
          lru |-> Append(Without(h.lru, k), k)]

\* what retrieve returns
HotValue(h, k) == IF k \in KeysOf(h.d) THEN ValueOf(h.d, k) ELSE None

\* delete, lines 61-63
HotDelete(h, k) ==
    IF k \notin KeysOf(h.d) THEN h
    ELSE [d |-> Remove(h.d, k), ts |-> Drop(h.ts, k), lru |-> Without(h.lru, k)]

\* clear, lines 70-71
HotClear == [d |-> <<>>, ts |-> EmptyDict, lru |-> <<>>]

\* ------------------------------------------------------------ ColdStorage
\* how a call that writes files ends: well, with an error before anything
\* was changed, or with an error after the change (in _save_metadata)
Outcomes == {"ok", "early", "late"}

\* a store that writes nothing
ColdStoreNothing(c, k, v, o) == c

\* store, lines 63-74
ColdStore(c, k, v, o) == IF o = "early" THEN c ELSE Assign(c, k, v)

\* a delete that removes nothing
ColdDeleteNothing(c, k, o) == c

\* delete, lines 88-97
ColdDelete(c, k, o) == IF k \notin DOMAIN c \/ o = "early" THEN c ELSE Drop(c, k)

\* delete raises only when there was something to delete
ColdDeleteFails(c, k, o) == k \in DOMAIN c /\ o # "ok"

\* the keys of c among ks
Restrict(c, ks) == [x \in (DOMAIN c) \cap ks |-> c[x]]

\* ----------------------------------------------------------- MixedStorage
\* an except clause that swallows the error
Swallowed(failed) == Nothing

\* `except Exception as e: raise StorageError(...)`, or the normal return
Wrapped(failed) == IF failed THEN Raised("StorageError") ELSE Nothing

\* the KeyError of a cold miss taken for any other exception
ColdMissRaises == Raised("StorageError")

\* `except KeyError: return None`, lines 43-44
ColdMiss == Returned(None)

\* the caller is between two calls: it has made none yet, or the last one
\* has returned
Ready(t) == pc[t] \in {"idle", "ret"}

\* the call returns r (or raises it) to its caller
TierDone(t, f, r) ==
    /\ result' = [result EXCEPT ![t] = r]
    /\ pc' = [pc EXCEPT ![t] = "ret"]
    /\ fn' = [fn EXCEPT ![t] = f]
    /\ UNCHANGED <<store, timestamps, lock, stop_cleanup, now, outer, key, val,
                   expired_keys, lru, lastSet, saved, others>>

\* the call waits in HotStorage.delete for the lock its own thread holds
TierHangs(t, f) ==
    /\ pc' = [pc EXCEPT ![t] = "blocked"]
    /\ fn' = [fn EXCEPT ![t] = f]
    /\ result' = [result EXCEPT ![t] = NoRes]
    /\ UNCHANGED <<store, timestamps, lock, stop_cleanup, now, outer, key, val,
                   expired_keys, lru, lastSet, saved, tiers, others>>

\* store_session, lines 21-26
StoreSession(t, k, v, o) ==
    /\ Ready(t)
    /\ IF HotBlocks(hot_timestamps, now)
       THEN TierHangs(t, "store_session")
       ELSE IF k = Unhashable \/ HotStoreFails(hot_data, k)
       THEN \* `key in self.data`: TypeError, wrapped in StorageError
            /\ TierDone(t, "store_session", Wrapped(TRUE))
            /\ UNCHANGED tiers
       ELSE /\ cold_files' = ColdStore(cold_files, k, v, o)
            /\ SetHot(HotStore(Hot, k, v, now))
            /\ TierDone(t, "store_session", Wrapped(o # "ok"))

\* retrieve_session, lines 30-46
RetrieveSession(t, k, o) ==
    /\ Ready(t)
    /\ UNCHANGED cold_files
    /\ IF HotBlocks(hot_timestamps, now)
       THEN /\ TierHangs(t, "retrieve_session")
       ELSE LET h == HotRetrieve(Hot, k, now)
                data == HotValue(Hot, k)
            IN IF data # None
               THEN /\ SetHot(h)
                    /\ TierDone(t, "retrieve_session", Returned(data))
               ELSE IF k \notin DOMAIN cold_files
               THEN \* ColdStorage.retrieve raises KeyError: line 43-44
                    /\ SetHot(h)
                    /\ TierDone(t, "retrieve_session", ColdMiss)
               ELSE IF o # "ok" \/ (cold_files[k] # None /\ HotStoreFails(h.d, k))
               THEN /\ SetHot(h)
                    /\ TierDone(t, "retrieve_session", Raised("StorageError"))
               ELSE /\ SetHot(IF cold_files[k] # None
                              THEN HotStore(h, k, cold_files[k], now)
                              ELSE h)
                    /\ TierDone(t, "retrieve_session", Returned(cold_files[k]))

\* delete_session, lines 50-55
DeleteSession(t, k, o) ==
    /\ Ready(t)
    /\ SetHot(HotDelete(Hot, k))
    /\ cold_files' = ColdDelete(cold_files, k, o)
    /\ TierDone(t, "delete_session", Wrapped(ColdDeleteFails(cold_files, k, o)))

\* clear_storage, lines 59-64: ColdStorage.clear deletes key after key and
\* may fail with the keys `left` still there
ClearStorage(t, left) ==
    /\ Ready(t)
    /\ SetHot(HotClear)
    /\ cold_files' = Restrict(cold_files, left)
    /\ TierDone(t, "clear_storage", Wrapped(left # {}))

\* hot_storage.store(k, v), called on the tier itself
DirectStore(t, k, v) ==
    /\ Ready(t)
    /\ UNCHANGED cold_files
    /\ IF HotBlocks(hot_timestamps, now)
       THEN TierHangs(t, "store")
       ELSE IF HotStoreFails(hot_data, k)
       THEN /\ TierDone(t, "store", Raised("StorageError"))
            /\ UNCHANGED <<hot_data, hot_timestamps, hot_lru>>
       ELSE /\ SetHot(HotStore(Hot, k, v, now))
            /\ TierDone(t, "store", Nothing)

CallDirectStore(t) == \E k \in Keys, v \in SessionData : DirectStore(t, k, v)

\* hot_storage.retrieve(k), called on the tier itself
DirectRetrieve(t, k) ==
    /\ Ready(t)
    /\ UNCHANGED cold_files
    /\ IF HotBlocks(hot_timestamps, now)
       THEN TierHangs(t, "retrieve")
       ELSE /\ SetHot(HotRetrieve(Hot, k, now))
            /\ TierDone(t, "retrieve", Returned(HotValue(Hot, k)))

CallDirectRetrieve(t) == \E k \in Keys : DirectRetrieve(t, k)

\* hot_storage.clear(), called on the tier itself
CallDirectClear(t) ==
    /\ Ready(t)
    /\ UNCHANGED cold_files
    /\ SetHot(HotClear)
    /\ TierDone(t, "clear", Nothing)

\* warm_up_hot_storage(keys): MixedStorage has no such method
WarmUp(t, ks) ==
    /\ Ready(t)
    /\ TierDone(t, "warm_up_hot_storage", Raised("AttributeError"))
    /\ UNCHANGED tiers

\* a MixedStorage driven through its own four methods only
MixedNext ==
    \/ \E k \in Keys, v \in SessionData, o \in Outcomes :
           StoreSession(Writer, k, v, o)
    \/ \E v \in SessionData : StoreSession(Writer, Unhashable, v, "ok")
    \* whether the read of k's file fails matters only when there is a file
    \/ \E k \in Keys, o \in {"ok", "early"} :
           /\ k \in DOMAIN cold_files \/ o = "ok"
           /\ RetrieveSession(Writer, k, o)
    \/ \E k \in Keys, o \in Outcomes :
           /\ k \in DOMAIN cold_files \/ o = "ok"
           /\ DeleteSession(Writer, k, o)
    \/ \E left \in SUBSET DOMAIN cold_files : ClearStorage(Writer, left)
    \/ Tick

MixedSpec == Init /\ [][MixedNext]_vars

\* the same, with the calls the tests make on the tiers themselves
TierNext ==
    \/ MixedNext
    \/ CallDirectStore(Writer)
    \/ CallDirectRetrieve(Writer)
    \/ CallDirectClear(Writer)
    \/ \E ks \in SUBSET Keys : ks # {} /\ WarmUp(Writer, ks)

TierSpec == Init /\ [][TierNext]_vars

\* hot_storage.delete(k), called on the tier itself: lines 58-65
CallDirectDelete(t) ==
    \E k \in Keys :
        /\ Ready(t)
        /\ UNCHANGED cold_files
        /\ SetHot(HotDelete(Hot, k))
        /\ TierDone(t, "delete", Nothing)

\* a HotStorage whose entries live longer than one tick of the clock
HotSpec ==
    Started(HotExpirationTime) /\ [][ \/ CallDirectStore(Writer)
                                      \/ CallDirectRetrieve(Writer)
                                      \/ CallDirectDelete(Writer)
                                      \/ CallDirectClear(Writer)
                                      \/ Tick ]_vars

\* ------------------------------------------- ColdStorage, called directly
\* retrieve, lines 76-85: `raise KeyError` when the key has no metadata (lines
\* 77-78); o tells whether the read of the file fails
ColdRetrieve(t, k, o) ==
    /\ Ready(t)
    /\ UNCHANGED tiers
    /\ TierDone(t, "cold.retrieve",
                IF k \notin DOMAIN cold_files THEN Raised("KeyError")
                ELSE IF o # "ok" THEN Raised("StorageError")
                ELSE Returned(cold_files[k]))

\* store, lines 63-74
ColdDirectStore(t, k, v, o) ==
    /\ Ready(t)
    /\ UNCHANGED <<hot_data, hot_timestamps, hot_lru>>
    /\ cold_files' = ColdStore(cold_files, k, v, o)
    /\ TierDone(t, "cold.store", Wrapped(o # "ok"))

\* delete, lines 87-97
ColdDirectDelete(t, k, o) ==
    /\ Ready(t)
    /\ UNCHANGED <<hot_data, hot_timestamps, hot_lru>>
    /\ cold_files' = ColdDelete(cold_files, k, o)
    /\ TierDone(t, "cold.delete", Wrapped(ColdDeleteFails(cold_files, k, o)))

\* clear, lines 99-105: delete key after key; may fail with `left` still there
ColdDirectClear(t, left) ==
    /\ Ready(t)
    /\ UNCHANGED <<hot_data, hot_timestamps, hot_lru>>
    /\ cold_files' = Restrict(cold_files, left)
    /\ TierDone(t, "cold.clear", Wrapped(left # {}))

ColdSpec ==
    Init /\ [][ \/ \E k \in Keys, v \in SessionData, o \in Outcomes : ColdDirectStore(Writer, k, v, o)
                \/ \E k \in Keys, o \in {"ok", "early"} :
                       /\ k \in DOMAIN cold_files \/ o = "ok"
                       /\ ColdRetrieve(Writer, k, o)
                \/ \E k \in Keys, o \in Outcomes :
                       /\ k \in DOMAIN cold_files \/ o = "ok"
                       /\ ColdDirectDelete(Writer, k, o)
                \/ \E left \in SUBSET DOMAIN cold_files : ColdDirectClear(Writer, left) ]_vars

\* ---------------------------------------------------------- SQLiteStorage
\* a call f on a component beside the session store and the tiers goes on
\* to its statement `at`; `rest` are the components it does not belong to
Goes(t, f, at, r, rest) ==
    /\ result' = [result EXCEPT ![t] = r]
    /\ pc' = [pc EXCEPT ![t] = at]
    /\ fn' = [fn EXCEPT ![t] = f]
    /\ UNCHANGED <<store, timestamps, lock, stop_cleanup, now, outer, key, val,
                   expired_keys, lru, lastSet, saved, tiers, hot_expiration, it>>
    /\ UNCHANGED rest

\* the call returns r (or raises it)
Ends(t, f, r, rest) == Goes(t, f, "ret", r, rest)

\* sqlite3.connect(self.db_path): the database the new connection sees. Every
\* connection to ":memory:" opens a database of its own, new and empty.
Connect(path, file) == IF path = MemoryPath THEN NoTable ELSE file

\* conn.commit(); conn.close(): what is left for the next connection
Closed(path, file, db) == IF path = MemoryPath THEN file ELSE db

\* pickle.dumps and pickle.loads
Pickle(v) == <<"pickle", v>>
Unpickle(b) == b[2]

\* SQLiteStorage(db_path): __init__ and _init_db, lines 15-34
SqlOpen(t, path) ==
    /\ Ready(t)
    /\ sql_path' = path
    /\ sql_file' = Closed(path, sql_file,
                          [Connect(path, sql_file) EXCEPT !.table = TRUE])
    /\ sql_stored' = EmptyDict
    /\ Ends(t, "SQLiteStorage", Nothing,
            <<filesystem, environment, legacy>>)

\* store, lines 36-48: "no such table" is wrapped in StorageError
SqlStore(t, k, v) ==
    LET db == Connect(sql_path, sql_file)
    IN /\ Ready(t)
       /\ UNCHANGED sql_path
       /\ sql_stored' = Assign(sql_stored, k, v)
       /\ IF ~db.table
          THEN /\ UNCHANGED sql_file
               /\ Ends(t, "sql.store", Raised("StorageError"),
                       <<filesystem, environment, legacy>>)
          ELSE /\ sql_file' = Closed(sql_path, sql_file,
                                     [db EXCEPT !.rows = Assign(@, k, Pickle(v))])
               /\ Ends(t, "sql.store", Nothing,
                       <<filesystem, environment, legacy>>)

\* retrieve, lines 50-67
SqlRetrieve(t, k) ==
    LET db == Connect(sql_path, sql_file)
    IN /\ Ready(t)
       /\ UNCHANGED sqlite
       /\ Ends(t, "sql.retrieve",
                  IF ~db.table THEN Raised("StorageError")
                  ELSE IF k \notin DOMAIN db.rows THEN Raised("KeyError")
                  ELSE Returned(Unpickle(db.rows[k])),
               <<filesystem, environment, legacy>>)

\* delete, lines 69-77
SqlDelete(t, k) ==
    LET db == Connect(sql_path, sql_file)
    IN /\ Ready(t)
       /\ UNCHANGED sql_path
       /\ sql_stored' = Drop(sql_stored, k)
       /\ IF ~db.table
          THEN /\ UNCHANGED sql_file
               /\ Ends(t, "sql.delete", Raised("StorageError"),
                       <<filesystem, environment, legacy>>)
          ELSE /\ sql_file' = Closed(sql_path, sql_file,
                                     [db EXCEPT !.rows = Drop(@, k)])
               /\ Ends(t, "sql.delete", Nothing,
                       <<filesystem, environment, legacy>>)

\* clear, lines 79-87
CallSqlClear(t) ==
    LET db == Connect(sql_path, sql_file)
    IN /\ Ready(t)
       /\ UNCHANGED sql_path
       /\ sql_stored' = EmptyDict
       /\ IF ~db.table
          THEN /\ UNCHANGED sql_file
               /\ Ends(t, "sql.clear", Raised("StorageError"),
                       <<filesystem, environment, legacy>>)
          ELSE /\ sql_file' = Closed(sql_path, sql_file,
                                     [db EXCEPT !.rows = EmptyDict])
               /\ Ends(t, "sql.clear", Nothing,
                       <<filesystem, environment, legacy>>)

SqlSpec ==
    Init /\ [][ \/ \E path \in {MemoryPath, "test.db"} : SqlOpen(Writer, path)
                \/ \E k \in Keys, v \in SessionData : SqlStore(Writer, k, v)
                \/ \E k \in Keys : SqlRetrieve(Writer, k)
                \/ \E k \in Keys : SqlDelete(Writer, k)
                \/ CallSqlClear(Writer) ]_vars

\* ------------------------------------------------------ FileSystemStorage
\* _get_path, lines 26-39: the key is the path below base_dir
GetPath(k) == k

\* path.with_suffix(path.suffix + '.tmp'), line 53
TempPath(path) == [path EXCEPT !.tmp = @ + 1]

\* open(temp_path, 'wb') leaves <<"pickle">> before anything was written, and
\* a completed pickle.dump leaves Pickle(v)
Complete(content) == Len(content) = 2

\* the content of the file at path
Content(files, path) == IF path \in DOMAIN files THEN files[path] ELSE NoFile

\* an except clause that leaves the temporary file behind
Littered(files, temp) == files

\* `if temp_path.exists(): temp_path.unlink()`, lines 65-66
Cleaned(files, temp) == Drop(files, temp)

\* store, lines 51-59, up to open(temp_path, 'wb'), which fails or truncates
FsStore(t, k, v, ok) ==
    /\ Ready(t)
    /\ fs_call' = [k |-> k, v |-> v, before |-> Content(fs_files, GetPath(k)),
                   files |-> fs_files]
    /\ IF ok
       THEN /\ fs_files' = Assign(fs_files, TempPath(GetPath(k)), <<"pickle">>)
            /\ Goes(t, "fs.store", "dump", NoRes,
                    <<sqlite, environment, legacy>>)
       ELSE /\ UNCHANGED fs_files
            /\ Goes(t, "fs.store", "except", NoRes,
                    <<sqlite, environment, legacy>>)

\* pickle.dump(value, f), line 60: writes the whole value or fails on the way
FsDump(t, ok) ==
    /\ pc[t] = "dump"
    /\ UNCHANGED fs_call
    /\ IF ok
       THEN /\ fs_files' = Assign(fs_files, TempPath(GetPath(fs_call.k)),
                                  Pickle(fs_call.v))
            /\ Goes(t, "fs.store", "replace", NoRes,
                    <<sqlite, environment, legacy>>)
       ELSE /\ UNCHANGED fs_files
            /\ Goes(t, "fs.store", "except", NoRes,
                    <<sqlite, environment, legacy>>)

\* temp_path.replace(path), line 63: the rename, or its OSError
FsReplace(t, ok) ==
    LET path == GetPath(fs_call.k)
        temp == TempPath(path)
    IN /\ pc[t] = "replace"
       /\ UNCHANGED fs_call
       /\ IF ok
          THEN /\ fs_files' = Drop(Assign(fs_files, path, fs_files[temp]), temp)
               /\ Ends(t, "fs.store", Nothing,
                       <<sqlite, environment, legacy>>)
          ELSE /\ UNCHANGED fs_files
               /\ Goes(t, "fs.store", "except", NoRes,
                       <<sqlite, environment, legacy>>)

\* `except Exception`, lines 64-67
FsExcept(t) ==
    /\ pc[t] = "except"
    /\ UNCHANGED fs_call
    /\ fs_files' = Cleaned(fs_files, TempPath(GetPath(fs_call.k)))
    /\ Ends(t, "fs.store", Raised("StorageError"),
            <<sqlite, environment, legacy>>)

\* retrieve, lines 81-89; the frame of the last store is gone
FsRetrieve(t, k) ==
    /\ Ready(t)
    /\ UNCHANGED fs_files
    /\ fs_call' = [k |-> NoKey, v |-> NoVal, before |-> NoFile,
                   files |-> EmptyDict]
    /\ Ends(t, "fs.retrieve",
              IF GetPath(k) \notin DOMAIN fs_files THEN Raised("KeyError")
              ELSE IF ~Complete(fs_files[GetPath(k)]) THEN Raised("StorageError")
              ELSE Returned(Unpickle(fs_files[GetPath(k)])),
            <<sqlite, environment, legacy>>)

\* delete, lines 97-110: unlink(missing_ok=True)
FsDelete(t, k) ==
    /\ Ready(t)
    /\ fs_call' = [k |-> NoKey, v |-> NoVal, before |-> NoFile,
                   files |-> EmptyDict]
    /\ fs_files' = Drop(fs_files, GetPath(k))
    /\ Ends(t, "fs.delete", Nothing,
            <<sqlite, environment, legacy>>)

\* clear, lines 114-129
CallFsClear(t) ==
    /\ Ready(t)
    /\ fs_call' = [k |-> NoKey, v |-> NoVal, before |-> NoFile,
                   files |-> EmptyDict]
    /\ fs_files' = EmptyDict
    /\ Ends(t, "fs.clear", Nothing,
            <<sqlite, environment, legacy>>)

FsSpec ==
    Init /\ [][ \/ \E k \in FsKeys, v \in SessionData, ok \in BOOLEAN : FsStore(Writer, k, v, ok)
                \/ \E ok \in BOOLEAN : FsDump(Writer, ok)
                \/ \E ok \in BOOLEAN : FsReplace(Writer, ok)
                \/ FsExcept(Writer)
                \/ \E k \in FsKeys : FsRetrieve(Writer, k)
                \/ \E k \in FsKeys : FsDelete(Writer, k)
                \/ CallFsClear(Writer) ]_vars

\* ------------------------------------------------------------ Environment
\* _get_mode_key, lines 563-576: f"{mode.prefix}{key}"
GetModeKey(k, mode) == IF mode = ALL THEN k ELSE <<mode>> \o k

\* _set_value_in_environments, lines 699-712, with _remove_mode_specific,
\* lines 715-722, and _get_base_key, lines 580-596: the key without its mode
\* prefix (no key in use ends with a mode suffix)
SetValue(environ, k, value, modes) ==
    LET GetBaseKey(x) ==
            IF Len(x) > 1 /\ Head(x) \in Modes \ {ALL} THEN Tail(x) ELSE x
        gone == {GetModeKey(GetBaseKey(k), mode) : mode \in Modes}
        kept == [x \in (DOMAIN environ) \ gone |-> environ[x]]
        names == IF ALL \in modes THEN {k}
                 ELSE {GetModeKey(k, mode) : mode \in modes}
    IN [x \in (DOMAIN kept) \cup names |->
           IF x \in names THEN [v |-> value, m |-> modes] ELSE kept[x]]

\* get, lines 668-672: the name whose value get hands out, <<>> when it
\* hands out the default
Source(environ, own, k) ==
    IF GetModeKey(k, own) \in DOMAIN environ THEN GetModeKey(k, own)
    ELSE IF k \in DOMAIN environ THEN k
    ELSE <<>>

\* get(key, default, mode), lines 648-675, in an Environment whose mode is own
EnvGet(environ, mappings, own, k, default, mode) ==
    LET current_mode == IF mode = None THEN own ELSE mode
        src == Source(environ, own, k)
        \* lines 661-666: the key is restricted to modes without the mode
        Denied == /\ k \in DOMAIN mappings
                  /\ ALL \notin mappings[k]
                  /\ current_mode \notin mappings[k]
    IN IF Denied THEN Raised("ModeError")
       ELSE IF src = <<>> THEN Returned(default)
       ELSE Returned(environ[src].v)

\* set({key: value}, modes=modes), lines 677-693
EnvSet(t, k, value, modes) ==
    /\ Ready(t)
    /\ env_mappings' = Assign(env_mappings, k, modes)
    /\ env_environ' = SetValue(env_environ, k, value, modes)
    /\ UNCHANGED <<env_mode, env_snapshot>>
    /\ Ends(t, "env.set", Nothing,
            <<sqlite, filesystem, legacy>>)

\* get(key), get(key, mode=mode)
EnvGetCall(t, k, mode) ==
    /\ Ready(t)
    /\ UNCHANGED environment
    /\ Ends(t, "env.get",
               EnvGet(env_environ, env_mappings, env_mode, k, None, mode),
            <<sqlite, filesystem, legacy>>)

\* env.mode = value, lines 834-836
EnvSetMode(t, value) ==
    /\ Ready(t)
    /\ env_mode # value
    /\ env_mode' = value
    /\ UNCHANGED <<env_environ, env_mappings, env_snapshot>>
    /\ Ends(t, "env.mode", Nothing,
            <<sqlite, filesystem, legacy>>)

EnvSpec ==
    Init /\ [][ \/ \E k \in EnvKeys, value \in EnvValues,
                      modes \in {{ALL}, {DEV}, {PROD}, {DEV, PROD}} :
                       EnvSet(Writer, k, value, modes)
                \/ \E k \in EnvKeys, mode \in {None} \cup Modes : EnvGetCall(Writer, k, mode)
                \/ \E value \in Modes : EnvSetMode(Writer, value) ]_vars

\* create_snapshot, lines 612-628: a copy of os.environ
CreateSnapshot(t) ==
    /\ Ready(t)
    /\ env_snapshot' = [taken |-> TRUE, variables |-> env_environ,
                        mappings |-> env_mappings]
    /\ UNCHANGED <<env_environ, env_mappings, env_mode>>
    /\ Ends(t, "env.create_snapshot", Nothing,
            <<sqlite, filesystem, legacy>>)

\* rollback, lines 630-646: os.environ.clear(); os.environ.update(...)
Rollback(t) ==
    /\ Ready(t)
    /\ env_snapshot.taken
    /\ env_environ' = env_snapshot.variables
    /\ UNCHANGED <<env_mappings, env_mode, env_snapshot>>
    /\ Ends(t, "env.rollback", Nothing,
            <<sqlite, filesystem, legacy>>)

\* the calls of test_snapshots, with one key and two `modes`
SnapshotSpec ==
    Init /\ [][ \/ \E value \in EnvValues, modes \in {{ALL}, {PROD}} :
                       EnvSet(Writer, <<"X">>, value, modes)
                \/ \E k \in EnvKeys : EnvGetCall(Writer, k, None)
                \/ \E value \in Modes : EnvSetMode(Writer, value)
                \/ CreateSnapshot(Writer)
                \/ Rollback(Writer) ]_vars

\* ------------------------------------------- store.py: the older classes
\* HotStorage._remove_expired_items, lines 340-346: `del self.data[key]`
LegLive(d, t) == SelectSeq(d, LAMBDA e : ~IsExpired(t, e.t))

\* HotStorage.retrieve, lines 358-363: `item[0] if item else None`
LegHotValue(d, k, t) ==
    IF k \in KeysOf(LegLive(d, t)) THEN ValueOf(LegLive(d, t), k) ELSE None

\* the history after HotStorage.retrieve(k), which has left the entries d
LegUsed(h, d, k) ==
    LET kept == SelectSeq(h, LAMBDA x : x \in KeysOf(d))
    IN IF k \in KeysOf(d) THEN Append(Without(kept, k), k) ELSE kept

\* MixedStorage.store_session, lines 387-390, with HotStorage.store, lines
\* 348-356
LegStoreSession(t, k, v) ==
    /\ Ready(t)
    /\ leg_hot' = LET added == Append(Remove(LegLive(leg_hot, now), k),
                                      [k |-> k, v |-> v, t |-> now])
                  IN IF Len(added) > MaxSize THEN Tail(added) ELSE added
    /\ leg_cold' = Assign(leg_cold, k, v)
    /\ leg_lru' = Append(SelectSeq(leg_lru, LAMBDA x :
                                x \in KeysOf(leg_hot') /\ x # k), k)
    /\ Ends(t, "legacy.store_session", Nothing,
            <<sqlite, filesystem, environment, leg_session>>)

\* MixedStorage.retrieve_session, lines 392-397, with ColdStorage.retrieve,
\* lines 303-310
LegRetrieveSession(t, k) ==
    LET session_data == LegHotValue(leg_hot, k, now)
        LegColdValue(c, x) == IF x \in DOMAIN c THEN c[x] ELSE None
    IN /\ Ready(t)
       /\ leg_hot' = LegLive(leg_hot, now)
       /\ leg_lru' = LegUsed(leg_lru, leg_hot', k)
       /\ UNCHANGED leg_cold
       /\ Ends(t, "legacy.retrieve_session",
                  Returned(IF session_data = None THEN LegColdValue(leg_cold, k)
                           ELSE session_data),
               <<sqlite, filesystem, environment, leg_session>>)

\* MixedStorage.delete_session, lines 399-402
CallLegDeleteSession(t) ==
    \E k \in Keys :
        /\ Ready(t)
        /\ leg_hot' = Remove(leg_hot, k)
        /\ leg_cold' = Drop(leg_cold, k)
        /\ leg_lru' = Without(leg_lru, k)
        /\ Ends(t, "legacy.delete_session", Nothing,
                <<sqlite, filesystem, environment, leg_session>>)

\* MixedStorage.clear_storage, lines 404-407
CallLegClearStorage(t) ==
    /\ Ready(t)
    /\ leg_hot' = <<>>
    /\ leg_cold' = EmptyDict
    /\ leg_lru' = <<>>
    /\ Ends(t, "legacy.clear_storage", Nothing,
            <<sqlite, filesystem, environment, leg_session>>)

\* hot_storage.retrieve(k), called on the tier itself
LegHotRetrieve(t, k) ==
    /\ Ready(t)
    /\ leg_hot' = LegLive(leg_hot, now)
    /\ leg_lru' = LegUsed(leg_lru, leg_hot', k)
    /\ UNCHANGED leg_cold
    /\ Ends(t, "legacy.retrieve", Returned(LegHotValue(leg_hot, k, now)),
            <<sqlite, filesystem, environment, leg_session>>)

\* hot_storage.clear(), called on the tier itself: lines 371-374
CallLegHotClear(t) ==
    /\ Ready(t)
    /\ leg_hot' = <<>>
    /\ leg_lru' = <<>>
    /\ UNCHANGED leg_cold
    /\ Ends(t, "legacy.clear", Nothing,
            <<sqlite, filesystem, environment, leg_session>>)

LegacySpec ==
    Init /\ [][ \/ \E k \in Keys, v \in Values : LegStoreSession(Writer, k, v)
                \/ \E k \in Keys : LegRetrieveSession(Writer, k)
                \/ CallLegDeleteSession(Writer)
                \/ CallLegClearStorage(Writer)
                \/ \E k \in Keys : LegHotRetrieve(Writer, k)
                \/ CallLegHotClear(Writer)
                \/ Tick ]_vars

\* ---------------------------------------- store.py: the older SessionStore
\* the sweep's test of line 505, `expire_at < current_time`, taken one tick
\* too early
LegExpiredEarly(e, t) == e <= t

\* the sweep's test of line 505: `expire_at < current_time`
LegExpired(e, t) == e < t

\* what get(k), lines 455-467, returns of the entries d at time t
LegGetValue(d, k, t) ==
    IF k \in KeysOf(d) /\ d[Lookup(d, k)].e >= t
    THEN Returned(ValueOf(d, k)) ELSE Default

\* set, lines 442-449, under the lock of store s
LegSet(t, s, k, v) ==
    /\ Ready(t)
    /\ leg_lock[s] = Free
    /\ leg_store' = [leg_store EXCEPT ![s] =
                        Append(IF k \in KeysOf(@) THEN Remove(@, k)
                               ELSE IF AtCapacity(@, MaxSize) THEN PopFirst(@)
                               ELSE @,
                               [k |-> k, v |-> v, e |-> now + ExpirationTime])]
    /\ UNCHANGED <<leg_lock, leg_args, keys_to_delete>>
    /\ Ends(t, "legacy.set", Nothing,
            <<sqlite, filesystem, environment, leg_hot, leg_cold, leg_lru>>)

\* get, lines 454-467, under the lock of store s: move_to_end of an entry
\* still valid, `del self._store[key]` of an expired one
LegGet(t, s, k) ==
    /\ Ready(t)
    /\ leg_lock[s] = Free
    /\ leg_store' = [leg_store EXCEPT ![s] =
                        IF k \notin KeysOf(@) THEN @
                        ELSE IF @[Lookup(@, k)].e >= now
                        THEN Append(Remove(@, k), @[Lookup(@, k)])
                        ELSE Remove(@, k)]
    /\ UNCHANGED <<leg_lock, leg_args, keys_to_delete>>
    /\ Ends(t, "legacy.get", LegGetValue(leg_store[s], k, now),
            <<sqlite, filesystem, environment, leg_hot, leg_cold, leg_lru>>)

\* delete, lines 471-477, under the lock of store s
LegDelete(t, s, k) ==
    /\ Ready(t)
    /\ leg_lock[s] = Free
    /\ leg_store' = [leg_store EXCEPT ![s] = Remove(@, k)]
    /\ UNCHANGED <<leg_lock, leg_args, keys_to_delete>>
    /\ Ends(t, "legacy.delete", Bool(k \in KeysOf(leg_store[s])),
            <<sqlite, filesystem, environment, leg_hot, leg_cold, leg_lru>>)

\* _cleanup_expired_sessions, lines 503-505: the thread of store s takes the
\* lock, reads the clock and lists the expired keys
LegSweep(s) ==
    /\ pc[Cleaner] = "wait"
    /\ leg_lock[s] = Free
    /\ leg_lock' = [leg_lock EXCEPT ![s] = Cleaner]
    /\ keys_to_delete' = {leg_store[s][i].k : i \in
                              {j \in DOMAIN leg_store[s] :
                                   LegExpired(leg_store[s][j].e, now)}}
    /\ UNCHANGED <<leg_store, leg_args>>
    /\ Goes(Cleaner, "legacy.cleanup", "sweeping", NoRes,
            <<sqlite, filesystem, environment, leg_hot, leg_cold, leg_lru>>)

\* lines 506-509: the listed keys are deleted, `with` releases the lock and
\* the thread is at its wait
LegSwept(s) ==
    /\ pc[Cleaner] = "sweeping"
    /\ leg_lock[s] = Cleaner
    /\ leg_store' = [leg_store EXCEPT ![s] =
                        SelectSeq(@, LAMBDA x : x.k \notin keys_to_delete)]
    /\ leg_lock' = [leg_lock EXCEPT ![s] = Free]
    /\ UNCHANGED <<leg_args, keys_to_delete>>
    /\ Goes(Cleaner, "legacy.cleanup", "wait", NoRes,
            <<sqlite, filesystem, environment, leg_hot, leg_cold, leg_lru>>)

\* store a, used by two threads while its cleanup thread sweeps
LegSessionSpec ==
    Init /\ [][\/ \E k \in Keys, v \in Values : LegSet(Writer, "a", k, v)
               \/ \E k \in Keys : LegDelete(Writer, "a", k)
               \/ \E k \in Keys : LegGet(Reader, "a", k)
               \/ LegSweep("a")
               \/ LegSwept("a")
               \/ Tick]_vars

\* x == y or x <= y, lines 554-557 and 560-563: other is a SessionStore, and
\* the thread is at `with self._lock, other._lock`
LegCompare(t, f, x, y) ==
    /\ Ready(t)
    /\ leg_args' = [leg_args EXCEPT ![t] = <<x, y>>]
    /\ UNCHANGED <<leg_store, leg_lock, keys_to_delete>>
    /\ Goes(t, f, "self._lock", NoRes,
            <<sqlite, filesystem, environment, leg_hot, leg_cold, leg_lru>>)

\* self._lock.acquire(): threading.Lock blocks while any thread holds it
LegSelfLock(t) ==
    /\ pc[t] = "self._lock"
    /\ leg_lock[leg_args[t][1]] = Free
    /\ leg_lock' = [leg_lock EXCEPT ![leg_args[t][1]] = t]
    /\ UNCHANGED <<leg_store, leg_args, keys_to_delete>>
    /\ Goes(t, fn[t], "other._lock", NoRes,
            <<sqlite, filesystem, environment, leg_hot, leg_cold, leg_lru>>)

\* other._lock.acquire(), then lines 558 and 564 and the release of both
\* locks; the two stores have the same config
LegOtherLock(t) ==
    /\ pc[t] = "other._lock"
    /\ leg_lock[leg_args[t][2]] = Free
    /\ leg_lock' = [s \in LegStores |->
                        IF s \in {leg_args[t][1], leg_args[t][2]} THEN Free
                        ELSE leg_lock[s]]
    /\ leg_args' = [leg_args EXCEPT ![t] = <<>>]
    /\ UNCHANGED <<leg_store, keys_to_delete>>
    /\ Ends(t, fn[t],
            IF fn[t] = "legacy.__eq__"
            THEN Bool(leg_store[leg_args[t][1]] = leg_store[leg_args[t][2]])
            ELSE Bool(Len(leg_store[leg_args[t][1]])
                          <= Len(leg_store[leg_args[t][2]])),
            <<sqlite, filesystem, environment, leg_hot, leg_cold, leg_lru>>)

\* two stores compared by two threads, between sets of one key
LegCompareSpec ==
    Init /\ [][\/ \E t \in Threads, x \in LegStores, y \in LegStores,
                     f \in {"legacy.__eq__", "legacy.__le__"} :
                      LegCompare(t, f, x, y)
               \/ \E t \in Threads : LegSelfLock(t)
               \/ \E t \in Threads : LegOtherLock(t)
               \/ \E s \in LegStores, v \in Values : LegSet(Writer, s, "a", v)]_vars

\* ----------------------- SessionStore: a config whose expiration_time is
\* not a number, as in SessionStoreConfig(expiration_time="3600")
\* set, lines 38-47: the print of line 45 adds the timestamp and
\* expiration_time, after the item was stored; its TypeError is wrapped
SetBodyRaises(p) ==
    /\ Locked(p, "set")
    /\ LET full == AtCapacity(store, MaxSize)
           kept == IF full THEN PopFirst(store) ELSE store
       IN /\ store' = Put(kept, key[p], val[p])
          /\ timestamps' = Assign(timestamps, key[p], now)
          /\ lru' = Append(SelectSeq(lru, LAMBDA x :
                               x \in KeysOf(kept) /\ x # key[p]), key[p])
          /\ lastSet' = Of([lastSet EXCEPT ![key[p]] = val[p]], store')
          /\ Finish(p, "set", Raised("StorageError"))
    /\ UNCHANGED <<stop_cleanup, now, expired_keys>>
    /\ UNCHANGED <<tiers, saved, others>>

\* one sweep, lines 105-112: the comparison of line 109 raises TypeError for
\* the first timestamp there is; `with` releases the lock on the way out.
\* Nothing in _cleanup_expired_sessions catches: the exception leaves the
\* `while` and the thread's target, and the thread ends. A sweep with no
\* timestamp to compare goes back to the wait of line 113.
SweepRaises ==
    /\ Locked(Cleaner, "cleanup")
    /\ lock' = Free
    /\ pc' = [pc EXCEPT ![Cleaner] = IF timestamps = EmptyDict THEN "wait"
                                     ELSE "died"]
    /\ fn' = [fn EXCEPT ![Cleaner] = "none"]
    /\ UNCHANGED <<store, timestamps, stop_cleanup, now, outer, key, val, result,
                   expired_keys, lru, lastSet>>
    /\ UNCHANGED <<tiers, saved, others>>

\* `self._cleanup_thread.join()` returns once the thread has ended, whichever
\* way it ended
JoinEnded(t) ==
    /\ pc[t] = "join"
    /\ pc[Cleaner] \in {"exited", "died"}
    /\ pc' = [pc EXCEPT ![t] = "ret"]
    /\ result' = [result EXCEPT ![t] = Nothing]
    /\ UNCHANGED <<store, timestamps, lock, stop_cleanup, now, fn,
                   outer, key, val, expired_keys, lru, lastSet>>
    /\ UNCHANGED <<tiers, saved, others>>

FaultSpec ==
    Init /\ [][ \/ CallSet(Writer)
                \/ CallDelete(Writer)
                \/ CallStopCleanup(Writer)
                \/ JoinEnded(Writer)
                \/ Return(Writer)
                \/ SetBodyRaises(Writer)
                \/ DeleteBody(Writer)
                \/ CleanupLoop
                \/ SweepRaises ]_vars

\* ------------------------------------- SessionStore: keys, values, items
\* the method returns r to thread t; the cleanup thread is left out
IterEnds(t, f, r) ==
    /\ lock = Free
    /\ Ready(t)
    /\ result' = [result EXCEPT ![t] = r]
    /\ pc' = [pc EXCEPT ![t] = "ret"]
    /\ fn' = [fn EXCEPT ![t] = f]
    /\ UNCHANGED <<lock, stop_cleanup, now, outer, key, val, expired_keys,
                   saved, tiers, sqlite, filesystem, environment,
                   hot_expiration, legacy>>

\* what an iterator of the kind yields for the item e of the OrderedDict
Element(e, kind) ==
    IF kind = "keys" THEN <<e.k>>
    ELSE IF kind = "values" THEN <<e.v>>
    ELSE <<e.k, e.v>>

\* the iterator after the nodes of the OrderedDict were changed; one that is
\* at its end does not look at the OrderedDict again
Noted(i, changed) == IF i.cur # 0 /\ changed THEN [i EXCEPT !.mutated = TRUE] ELSE i

\* keys(), values(), items(), lines 87-100: `iter(self._store.keys())` is an
\* iterator over the OrderedDict itself
IterOpen(t, kind) ==
    /\ it' = [kind |-> kind, cur |-> IF store = <<>> THEN 0 ELSE 1,
              mutated |-> FALSE, failed |-> FALSE, snap |-> store, out |-> <<>>]
    /\ UNCHANGED <<store, timestamps, lru, lastSet>>
    /\ IterEnds(t, kind, Nothing)

\* next(iterator), by the caller and without the lock: StopIteration at the
\* end, RuntimeError ("OrderedDict mutated during iteration") after a change
\* of the nodes, else the item as it is now
IterNext(t) ==
    /\ it.kind # "none"
    /\ UNCHANGED <<store, timestamps, lru, lastSet>>
    /\ IF it.cur = 0
       THEN /\ UNCHANGED it
            /\ IterEnds(t, "next", Raised("StopIteration"))
       ELSE IF it.mutated
       THEN /\ it' = [it EXCEPT !.failed = TRUE, !.cur = 0]
            /\ IterEnds(t, "next", Raised("RuntimeError"))
       ELSE /\ it' = [it EXCEPT
                        !.out = Append(@, Element(store[it.cur], it.kind)),
                        !.cur = IF it.cur = Len(store) THEN 0 ELSE it.cur + 1]
            /\ IterEnds(t, "next", Nothing)

\* set, lines 38-47, from `with` to return
IterSet(t, k, v) ==
    LET full == AtCapacity(store, MaxSize)
        kept == IF full THEN PopFirst(store) ELSE store
    IN /\ store' = Put(kept, k, v)
       /\ timestamps' = Assign(timestamps, k, now)
       /\ lru' = Append(SelectSeq(lru, LAMBDA x : x \in KeysOf(kept) /\ x # k), k)
       /\ lastSet' = Of([lastSet EXCEPT ![k] = v], store')
       /\ it' = Noted(it, full \/ k \notin KeysOf(kept))
       /\ IterEnds(t, "set", Nothing)

\* delete, lines 67-76, from `with` to return
IterDelete(t, k) ==
    LET found == k \in KeysOf(store)
    IN /\ store' = Remove(store, k)
       /\ timestamps' = IF found THEN Drop(timestamps, k) ELSE timestamps
       /\ lru' = Without(lru, k)
       /\ lastSet' = Of(lastSet, store')
       /\ it' = Noted(it, found)
       /\ IterEnds(t, "delete", Bool(found))

\* clear, lines 78-85, from `with` to return
IterClear(t) ==
    /\ store' = <<>>
    /\ timestamps' = EmptyDict
    /\ lru' = <<>>
    /\ lastSet' = Of(lastSet, store')
    /\ it' = Noted(it, store # <<>>)
    /\ IterEnds(t, "clear", Nothing)

IterSpec ==
    Init /\ [][ \/ \E kind \in {"keys", "values", "items"} : IterOpen(Reader, kind)
                \/ IterNext(Reader)
                \/ \E k \in Keys, v \in Values : IterSet(Writer, k, v)
                \/ \E k \in Keys : IterDelete(Writer, k)
                \/ IterClear(Writer) ]_vars

\* ================================================================ claims
\* the keys resident in the table
Resident == KeysOf(store)

\* the resident keys whose age exceeds expiration_time
ExpiredResident == {k \in Resident : IsExpired(now, timestamps[k])}

\* p waits for the mutex and the mutex's holder has no step left to take:
\* only the holder's own steps release the mutex, so p waits forever
Stuck(p) == pc[p] = "acquire" /\ lock \in Procs /\ ~ENABLED Step(lock)

\* C1: the number of entries resident in _store is at most config.max_size
\* in every reachable state.
C1_SizeAtMostMaxSize == Len(store) <= MaxSize

\* C1's case: a set has returned with the table full after an eviction (the
\* evicted key's timestamp is still there).
C1_Witness ==
    /\ pc[Writer] = "ret" /\ fn[Writer] = "set"
    /\ Len(store) = MaxSize
    /\ \E k \in DOMAIN timestamps : k \notin Resident

\* C2: whenever set(k, v) of a key that is not resident evicts at capacity,
\* the evicted key is the resident key least recently touched by a get or set.
C2_EvictsLeastRecentlyUsed ==
    [][\A p \in Procs :
          (SetBody(p) /\ key[p] \notin Resident /\ AtCapacity(store, MaxSize))
              => KeysOf(store') = (Resident \ {Head(lru)}) \cup {key[p]}]_vars

\* C3: get(k, default) of a resident entry whose age exceeds expiration_time
\* returns default to the caller: a get that has found its entry expired is
\* never left waiting forever.
C3_GetOfExpiredReturnsDefault ==
    \A t \in Threads : (fn[t] = "delete" /\ outer[t] = "get") => ~Stuck(t)

\* C4: every invocation of set, get, delete, clear or len eventually returns:
\* no process ever waits for a mutex that will never be released.
C4_NoThreadBlocksForever == \A p \in Procs : ~Stuck(p)

\* C5: the sweep removes every expired entry and then releases the mutex: a
\* sweep that has found expired keys can go on to delete them.
C5_SweepRemovesExpired ==
    (pc[Cleaner] = "acquire" /\ expired_keys # {}) => ENABLED Step(Cleaner)

\* C6: stop_cleanup() eventually returns: while a thread is in its join(),
\* the cleanup thread has ended or can still get to the end of its loop.
C6_StopCleanupReturns ==
    \A t \in Threads : pc[t] = "join" => ~Stuck(Cleaner)

\* C7: every get(k) returns either the default or the value written by the
\* latest set(k, .) before it in the order in which the mutex was taken (and
\* that only while k has stayed in the table since).
C7_GetReturnsLatestSet ==
    [][\A t \in Threads :
          (GetBody(t) /\ pc'[t] = "ret")
              => \/ result'[t] = Default
                 \/ /\ lastSet[key[t]] # NoVal
                    /\ result'[t] = Returned(lastSet[key[t]])]_vars

\* C7's case: a get has returned the second value written to a key, while
\* the writer has another set of a key holding that value under way.
C7_Witness ==
    /\ pc[Reader] = "ret" /\ fn[Reader] = "get"
    /\ result[Reader] = Returned("v2")
    /\ pc[Writer] = "acquire" /\ fn[Writer] = "set" /\ val[Writer] = "v1"
    /\ key[Writer] \in Resident
    /\ ValueOf(store, key[Writer]) = "v2"
    /\ Len(store) = MaxSize

\* C8: len(store) equals the number of entries that are resident and not
\* expired, and so is at most config.max_size.
C8_LenCountsResident ==
    /\ ActiveCount(timestamps, now) = Cardinality(Resident \ ExpiredResident)
    /\ \A t \in Threads :
          (pc[t] = "ret" /\ fn[t] = "__len__") => result[t].n <= MaxSize

\* C9: set(k, v) of a key that is already resident replaces k's value and
\* removes no other resident key, even at capacity.
C9_SetOfResidentKeepsOthers ==
    [][\A p \in Procs :
          (SetBody(p) /\ key[p] \in Resident)
              => /\ KeysOf(store') = Resident
                 /\ ValueOf(store', key[p]) = val[p]]_vars

\* C10: delete(k) returns True and removes k (and nothing else) when k is
\* resident, returns False and leaves the table as it is when k is not;
\* `del store[k]` raises KeyError exactly when delete(k) returns False.
C10_DeleteResult ==
    [][\A p \in Procs :
          (DeleteBody(p) /\ outer[p] \in {"api", "__delitem__"})
              => IF key[p] \in Resident
                 THEN /\ KeysOf(store') = Resident \ {key[p]}
                      /\ result'[p] =
                             IF outer[p] = "api" THEN Bool(TRUE) ELSE Nothing
                 ELSE /\ store' = store
                      /\ result'[p] =
                             IF outer[p] = "api" THEN Bool(FALSE)
                             ELSE Raised("KeyError")]_vars

\* C10's case: a delete of a key that is not resident has returned False
\* with another key in the table.
C10_Witness ==
    /\ pc[Writer] = "ret" /\ fn[Writer] = "delete"
    /\ result[Writer] = Bool(FALSE)
    /\ Len(store) = 1

\* C11: for every key k and stored value v (None included), while k is
\* resident and not expired `k in store` is true and `store[k]` returns v;
\* `store[k]` raises KeyError and `k in store` is false exactly when k is
\* absent or expired.
C11_SubscriptAndContains ==
    [][\A t \in Threads :
          (GetBody(t) /\ outer[t] \in {"__getitem__", "__contains__"})
              => result'[t] =
                     IF key[t] \in Resident \ ExpiredResident
                     THEN IF outer[t] = "__getitem__"
                          THEN Returned(ValueOf(store, key[t]))
                          ELSE Bool(TRUE)
                     ELSE IF outer[t] = "__getitem__"
                          THEN Raised("KeyError")
                          ELSE Bool(FALSE)]_vars

\* C12: lock(k, d) on a resident, unlocked key returns true and marks the
\* entry Locked (so that every get(k) before the lease of d elapses raises a
\* Busy StorageError, and the first get(k) after it returns the value).
C12_LockReturnsTrue ==
    [][\A t \in Threads, k \in Keys, d \in Durations :
          (Lock(t, k, d) /\ k \in Resident \ ExpiredResident)
              => result'[t] = Bool(TRUE)]_vars

\* C13: after set(k, v) and stop(), a second store constructed on the same
\* persistence path returns v from get(k), for every k whose entry had not
\* expired at stop time (and has not expired since).
C13_SecondStoreReturnsSaved ==
    [][\A t \in Threads :
          (/\ GetBody(t) /\ outer[t] = "api"
           /\ key[t] \in DOMAIN saved
           /\ ~IsExpired(now, saved[key[t]].t))
              => result'[t] = Returned(saved[key[t]].v)]_vars

\* the hot tier holds v for k
HotHolds(d, k, v) == k \in KeysOf(d) /\ ValueOf(d, k) = v

\* the cold tier holds v for k
ColdHolds(c, k, v) == k \in DOMAIN c /\ c[k] = v

\* neither tier holds k
NotHeld(k) == k \notin KeysOf(hot_data) /\ k \notin DOMAIN cold_files

\* the call of method f has come back to the caller, with a result or an
\* exception
Returns(f) == pc[Writer] = "ret" /\ fn[Writer] = f

\* the call of method f has returned r to the caller
Back(f, r) == Returns(f) /\ result[Writer] = r

\* C14: when store_session(k, v) returns normally, the hot tier and the cold
\* tier both hold v for k.
C14_WriteThrough ==
    [][Back("store_session", Nothing)' =>
          \A k \in Keys \cup {Unhashable}, v \in SessionData, o \in Outcomes :
              StoreSession(Writer, k, v, o)
                  => /\ HotHolds(hot_data', k, v)
                     /\ ColdHolds(cold_files', k, v)]_vars

\* C14's case: store_session has returned normally with the hot tier full
\* and a key that only the cold tier still holds.
C14_Witness ==
    /\ Back("store_session", Nothing)
    /\ Len(hot_data) = MaxSize
    /\ \E k \in DOMAIN cold_files : k \notin KeysOf(hot_data)

\* C15: if k is absent from the hot tier and the cold tier holds v for k,
\* retrieve_session(k) returns v and afterwards the hot tier holds v for k;
\* if k is in the hot tier, the hot value is returned without consulting the
\* cold tier (so whatever the cold tier holds or does).
C15_ReadThrough ==
    [][Returns("retrieve_session")' =>
          \A k \in Keys, o \in {"ok", "early"} :
              RetrieveSession(Writer, k, o)
                  => IF k \in KeysOf(hot_data)
                     THEN result'[Writer] = Returned(ValueOf(hot_data, k))
                     ELSE (k \in DOMAIN cold_files /\ o = "ok")
                              => /\ result'[Writer] = Returned(cold_files[k])
                                 /\ HotHolds(hot_data', k, cold_files[k])]_vars

\* C16: retrieve_session(k) of a key held by neither tier returns None, it
\* does not raise, and it leaves both tiers as they were.
C16_MissReturnsNone ==
    [][Returns("retrieve_session")' =>
          \A k \in Keys, o \in {"ok", "early"} :
              (NotHeld(k) /\ RetrieveSession(Writer, k, o))
                  => /\ result'[Writer] = Returned(None)
                     /\ hot_data' = hot_data
                     /\ hot_timestamps' = hot_timestamps
                     /\ cold_files' = cold_files]_vars

\* C16's case: retrieve_session has returned None while both tiers hold
\* other keys and no None is stored anywhere.
C16_Witness ==
    /\ Back("retrieve_session", Returned(None))
    /\ hot_data # <<>>
    /\ cold_files # EmptyDict
    /\ \A i \in DOMAIN hot_data : hot_data[i].v # None
    /\ \A k \in DOMAIN cold_files : cold_files[k] # None

\* C17: after delete_session(k) returns, neither tier holds k and
\* retrieve_session(k) returns None; after clear_storage() returns, neither
\* tier holds any key.
C17_DeleteAndClear ==
    [][/\ Back("delete_session", Nothing)' =>
             \A k \in Keys, o \in Outcomes :
                 DeleteSession(Writer, k, o) => NotHeld(k)'
       /\ Returns("retrieve_session")' =>
             \A k \in Keys, o \in {"ok", "early"} :
                 (NotHeld(k) /\ RetrieveSession(Writer, k, o))
                     => result'[Writer] = Returned(None)
       /\ Back("clear_storage", Nothing)' =>
             \A left \in SUBSET Keys :
                 ClearStorage(Writer, left)
                     => hot_data' = <<>> /\ cold_files' = EmptyDict]_vars

\* C17's case: delete_session has returned normally, having left other keys
\* in both tiers.
C17_Witness ==
    /\ Back("delete_session", Nothing)
    /\ Len(hot_data) = 1
    /\ Cardinality(DOMAIN cold_files) = 2
    /\ Cardinality(DOMAIN hot_timestamps) = 1

\* C18: if the hot-tier write or the cold-tier write of store_session(k, v)
\* fails, store_session raises StorageError; it never returns normally
\* after a failed write: a store_session that ends without raising
\* StorageError is one in which no write failed.
C18_FailedWriteRaises ==
    [][(Returns("store_session")' /\ result'[Writer] # Raised("StorageError")) =>
          \A k \in Keys \cup {Unhashable}, v \in SessionData, o \in Outcomes :
              StoreSession(Writer, k, v, o)
                  => ~(k = Unhashable \/ HotStoreFails(hot_data, k) \/ o # "ok")]_vars

\* C18's case: store_session has raised StorageError after the hot tier was
\* written and the cold tier was not.
C18_Witness ==
    /\ Back("store_session", Raised("StorageError"))
    /\ \E k \in KeysOf(hot_data) : k \notin DOMAIN cold_files
    /\ hot_lru # <<>> /\ hot_lru[Len(hot_lru)] \notin DOMAIN cold_files

\* C19: warm_up(keys) loads exactly the named keys from the cold tier into
\* the hot tier: with the keys in the cold tier, the hot tier empty and room
\* for them, the hot tier afterwards holds exactly these keys with their cold
\* values.
C19_WarmUpLoadsNamedKeys ==
    [][Returns("warm_up_hot_storage")' =>
          \A ks \in SUBSET Keys :
              (/\ ks \subseteq DOMAIN cold_files
               /\ hot_data = <<>>
               /\ Cardinality(ks) <= MaxSize
               /\ WarmUp(Writer, ks))
                  => /\ KeysOf(hot_data') = ks
                     /\ \A k \in ks : HotHolds(hot_data', k, cold_files[k])]_vars

\* C20: while no entry has expired, store(k, v) of a new key at capacity
\* evicts exactly the key least recently stored or retrieved, and
\* retrieve(k) makes k the most recently used key.
C20_HotEvictsLeastRecentlyUsed ==
    [][/\ (Returns("store")' /\ AtCapacity(hot_data, MaxSize)) =>
             \A k \in Keys \ KeysOf(hot_data), v \in SessionData :
                 DirectStore(Writer, k, v)
                     => KeysOf(hot_data') =
                            (KeysOf(hot_data) \ {Head(hot_lru)}) \cup {k}
       /\ Returns("retrieve")' =>
             \A k \in KeysOf(hot_data) :
                 DirectRetrieve(Writer, k)
                     => hot_data'[Len(hot_data')].k = k]_vars

\* C20's case: a store of a new key has returned with the hot tier full and
\* an evicted key's timestamp left behind.
C20_Witness ==
    /\ Back("store", Nothing)
    /\ Len(hot_data) = MaxSize
    /\ \E k \in DOMAIN hot_timestamps : k \notin KeysOf(hot_data)

\* C21: retrieve(k) called more than expiration_time after k was stored
\* returns None to the caller, and a store or retrieve of another key made
\* while an expired entry is resident returns too.
C21_ExpiredRetrieveReturnsNone ==
    [][/\ \A k \in Keys :
             (/\ k \in KeysOf(hot_data)
              /\ IsExpired(now, hot_timestamps[k])
              /\ DirectRetrieve(Writer, k))
                 => Back("retrieve", Returned(None))'
       /\ \A k \in Keys, v \in SessionData :
             (DirectStore(Writer, k, v) \/ DirectRetrieve(Writer, k))
                 => pc'[Writer] = "ret"]_vars

\* C22: retrieve(k) on the ColdStorage, for a key that was deleted, cleared
\* away or never stored, returns None; it does not raise.
C22_ColdMissReturnsNone ==
    [][\A k \in Keys :
          (k \notin DOMAIN cold_files /\ ColdRetrieve(Writer, k, "ok"))
              => Back("cold.retrieve", Returned(None))']_vars

\* C23: on a SQLiteStorage() with the default in-memory database, store(k, v)
\* returns normally and a following retrieve(k) on that instance returns v.
C23_MemoryStoreThenRetrieve ==
    [][sql_path = MemoryPath =>
          \A k \in Keys :
              /\ \A v \in SessionData :
                    SqlStore(Writer, k, v) => Back("sql.store", Nothing)'
              /\ (k \in DOMAIN sql_stored /\ SqlRetrieve(Writer, k))
                     => Back("sql.retrieve", Returned(sql_stored[k]))']_vars

\* C24: when FileSystemStorage.store(k, v) has finished, normally or with
\* StorageError, no temporary file of k is left and the file of k holds a
\* complete value: v after a normal return, and what it held before the call
\* (or still no file) after a StorageError.
C24_StoreIsAtomic ==
    Returns("fs.store") =>
        LET path == GetPath(fs_call.k)
        IN /\ TempPath(path) \notin DOMAIN fs_files
           /\ result[Writer] = Nothing => Content(fs_files, path) = Pickle(fs_call.v)
           /\ result[Writer] = Raised("StorageError")
                 => Content(fs_files, path) = fs_call.before
           /\ path \in DOMAIN fs_files => Complete(fs_files[path])

\* a store that failed after its temporary file was written has returned, and
\* the file of its key holds the other value it held before
C24_Witness ==
    /\ Returns("fs.store")
    /\ result[Writer] = Raised("StorageError")
    /\ fs_call.before \notin {NoFile, Pickle(fs_call.v)}
    /\ Content(fs_files, GetPath(fs_call.k)) = fs_call.before

\* C25: a value set with set({key: value}, modes=M), ALL not in M, is never
\* returned by a get, of whatever key string, while the current mode is outside
\* M; get(key) raises ModeError then, and returns the value when the mode is
\* in M.
C25_RestrictedValueStaysInItsModes ==
    [][Returns("env.get")' =>
          \A k \in EnvKeys :
              EnvGetCall(Writer, k, None) =>
                  LET src == Source(env_environ, env_mode, k)
                  IN /\ (src # <<>> /\ ALL \notin env_environ[src].m)
                        => /\ env_mode \in env_environ[src].m
                           /\ result'[Writer] = Returned(env_environ[src].v)
                     /\ (k \in DOMAIN env_mappings /\ ALL \notin env_mappings[k])
                        => IF env_mode \in env_mappings[k]
                           THEN /\ src # <<>>
                                /\ result'[Writer] = Returned(env_environ[src].v)
                           ELSE result'[Writer] = Raised("ModeError")]_vars

\* C26: rollback(s) puts the environment back where it was when s was made:
\* for every key and every mode, get(key) gives after the rollback what it
\* gave then (the value, the default or ModeError), and no variable set since
\* then is left.
C26_RollbackRestoresGets ==
    [][Returns("env.rollback")' =>
          (Rollback(Writer) =>
              /\ DOMAIN env_environ' = DOMAIN env_snapshot.variables
              /\ \A k \in EnvKeys, mode \in Modes :
                    EnvGet(env_environ', env_mappings', mode, k, None, None)
                        = EnvGet(env_snapshot.variables, env_snapshot.mappings,
                                 mode, k, None, None))]_vars

\* the time at which the entry of k counts as expired: line 27
Deadline(ts, k) == ts[k] + hot_expiration

\* C27: the deadline of a hot entry is fixed by its last store: it expires
\* expiration_time after it was stored, and a retrieve does not extend it.
C27_RetrieveKeepsDeadline ==
    [][\A k \in Keys :
          (k \in KeysOf(hot_data) /\ DirectRetrieve(Writer, k))
              => Deadline(hot_timestamps', k) = Deadline(hot_timestamps, k)]_vars

\* C30: after a retrieve_session(k) of the older MixedStorage that was served
\* from the cold tier because the hot tier missed, the hot tier holds k, so a
\* following hot_storage.retrieve(k) returns the value.
C30_LegacyReadThroughRepopulates ==
    [][\A k \in Keys :
          (/\ LegHotValue(leg_hot, k, now) = None
           /\ k \in DOMAIN leg_cold
           /\ LegRetrieveSession(Writer, k))
              => LegHotValue(leg_hot', k, now') = leg_cold[k]]_vars

\* C28: an exception raised inside one sweep of the cleanup loop leaves the
\* cleanup thread running: the lock is released and the thread is back at its
\* wait, from where further sweeps follow until stop_cleanup().
C28_SweepExceptionIsSurvived ==
    [][(timestamps # EmptyDict /\ SweepRaises)
          => lock' = Free /\ pc'[Cleaner] = "wait"]_vars

\* list(...) of a copy of the keys, values or items of d
Listed(d, kind) == [i \in DOMAIN d |-> Element(d[i], kind)]

\* s is the beginning of t
IsPrefix(s, t) == Len(s) <= Len(t) /\ \A i \in DOMAIN s : s[i] = t[i]

\* C29: the iterator keys(), values() or items() returned is over a snapshot
\* taken under the lock: consuming it while another thread runs set, delete
\* or clear never fails, and yields what the store held when it was made.
C29_IteratorsAreSnapshots ==
    /\ ~it.failed
    /\ IsPrefix(it.out, Listed(it.snap, it.kind))

\* C31: retrieve(k) of the older HotStorage promotes k, so that a store that
\* exceeds max_size evicts the key least recently stored or retrieved, and
\* the key retrieved is the last one to be evicted.
C31_LegacyEvictsLeastRecentlyUsed ==
    [][/\ Returns("legacy.store_session")' =>
             \A k \in Keys, v \in Values :
                 LET live == KeysOf(LegLive(leg_hot, now)) \ {k}
                     used == SelectSeq(leg_lru, LAMBDA x : x \in live)
                 IN (Cardinality(live) = MaxSize /\ LegStoreSession(Writer, k, v))
                        => KeysOf(leg_hot') = (live \ {Head(used)}) \cup {k}
       /\ Returns("legacy.retrieve")' =>
             \A k \in KeysOf(LegLive(leg_hot, now)) :
                 LegHotRetrieve(Writer, k)
                     => leg_hot'[Len(leg_hot')].k = k]_vars

\* C32: get(key, mode=m) returns what get(key) returns in an Environment whose
\* current mode is m, whatever the key, the current mode and m.
C32_GetWithModeIsGetInThatMode ==
    [][Returns("env.get")' =>
          \A k \in EnvKeys, m \in Modes :
              EnvGetCall(Writer, k, m) =>
                  result'[Writer] = EnvGet(env_environ, env_mappings, m, k,
                                           None, None)]_vars

\* C33: in every reachable state the keys of _timestamps are the keys of
\* _store: no operation leaves a timestamp for a key that is not resident, or
\* a resident key without a timestamp.
C33_TimestampsMatchStore == DOMAIN timestamps = KeysOf(store)

\* C34: in every reachable state of a HotStorage len(data) <= max_size and
\* the keys of _timestamps are the keys of data.
C34_HotSizeAndTimestamps ==
    /\ Len(hot_data) <= MaxSize
    /\ DOMAIN hot_timestamps = KeysOf(hot_data)

\* C35: a MixedStorage driven through store_session, retrieve_session,
\* delete_session and clear_storage only, cold-tier failures included: when
\* the hot tier holds a value for k, the cold tier holds the same value for k.
C35_HotIsBackedByCold ==
    \A k \in KeysOf(hot_data) : ColdHolds(cold_files, k, ValueOf(hot_data, k))

\* a thread in a comparison waits for a lock whose holder can take no step
LegStuck(t) ==
    /\ pc[t] \in {"self._lock", "other._lock"}
    /\ LET h == leg_lock[leg_args[t][IF pc[t] = "self._lock" THEN 1 ELSE 2]]
       IN h \in Threads /\ ~ENABLED (LegSelfLock(h) \/ LegOtherLock(h))

\* C36: a == b and a <= b of two SessionStores of store.py always end, for
\* a and b the same store too, and for a == b in one thread with b == a in
\* another: no thread in a comparison waits for a lock that is never freed.
C36_ComparisonsTerminate == \A t \in Threads : ~LegStuck(t)

\* C37: the sweep of the SessionStore of store.py removes only entries get
\* treats as expired: what get(k) would return at the moment the sweep deletes
\* stays in the store, whatever set, get and delete did around the sweep.
C37_SweepRemovesOnlyExpired ==
    [][(pc[Cleaner] = "sweeping" /\ pc'[Cleaner] = "wait") =>
          \A k \in Keys :
              LegGetValue(leg_store["a"], k, now).tag = "value" =>
                  LegGetValue(leg_store'["a"], k, now)
                      = LegGetValue(leg_store["a"], k, now)]_vars

\* a sweep has removed an expired entry and left one that get returns
C37_Witness ==
    /\ pc[Cleaner] = "wait"
    /\ keys_to_delete # {}
    /\ keys_to_delete \cap KeysOf(leg_store["a"]) = {}
    /\ \E k \in Keys : LegGetValue(leg_store["a"], k, now).tag = "value"

\* C38: FileSystemStorage.store(k, v) and delete(k) leave the stored value of
\* every other key as it was and retrievable, for keys that differ by a '.tmp'
\* suffix too: when store has returned or raised, and after a delete, the file
\* of each other key that held a value holds it still.
C38_StoreAndDeleteKeepOtherKeys ==
    [][/\ Returns("fs.store")' =>
              \A other \in FsKeys \ {fs_call'.k} :
                  Complete(Content(fs_call'.files, GetPath(other))) =>
                      Content(fs_files', GetPath(other))
                          = Content(fs_call'.files, GetPath(other))
       /\ Returns("fs.delete")' =>
              \A k \in FsKeys :
                  FsDelete(Writer, k) =>
                      \A other \in FsKeys \ {k} :
                          Complete(Content(fs_files, GetPath(other))) =>
                              Content(fs_files', GetPath(other))
                                  = Content(fs_files, GetPath(other))]_vars

====
